---- MODULE Spec2Model ----
(***************************************************************************)
(* The entry store of src-tauri/src/lib.rs: a directory of "<id>.md" files *)
(* with the five commands get_journal_entries (list), get_journal_entry    *)
(* (get), save_journal_entry (save), create_journal_entry (create) and     *)
(* delete_journal_entry (delete).                                          *)
(*                                                                         *)
(* A Rust String is modelled as the sequence of its Unicode scalar values, *)
(* a file as the sequence of bytes fs::write puts on disk.  The path of an *)
(* entry is resolved as the file system resolves it, so an id may name a   *)
(* file outside the directory.  Spec runs the commands one after the       *)
(* other; SpecRace interleaves the two steps of concurrent deletes.        *)
(***************************************************************************)
EXTENDS Integers, Sequences, FiniteSets, TLC

\* ------------------------------------------------------------------------
\* Characters and string literals of the source
\* ------------------------------------------------------------------------
LF == 10
CR == 13
HASH == 35

\* ".md", the suffix of format!("{}.md", id)
MdSuffix == <<46, 109, 100>>
\* "md", the extension the listing keeps
MdExt == <<109, 100>>
\* "...", the marker appended to a cut preview
Ellipsis == <<46, 46, 46>>
\* "# ", the start of the heading line written by create
HeadingStart == <<HASH, 32>>
\* char::is_whitespace (Unicode White_Space)
WhiteSpace ==
    (9..13) \cup {32, 133, 160, 5760} \cup (8192..8202)
            \cup {8232, 8233, 8239, 8287, 12288}

\* number of characters the preview keeps
PREVIEW_LIMIT == 150

Min(a, b) == IF a < b THEN a ELSE b

\* ------------------------------------------------------------------------
\* UTF-8: what fs::write puts on disk and what fs::read_to_string accepts
\* ------------------------------------------------------------------------
Utf8Len(c) ==
    IF c < 128 THEN 1 ELSE IF c < 2048 THEN 2 ELSE IF c < 65536 THEN 3 ELSE 4

Utf8EncodeChar(c) ==
    IF c < 128 THEN <<c>>
    ELSE IF c < 2048 THEN <<192 + (c \div 64), 128 + (c % 64)>>
    ELSE IF c < 65536 THEN
        <<224 + (c \div 4096), 128 + ((c \div 64) % 64), 128 + (c % 64)>>
    ELSE <<240 + (c \div 262144), 128 + ((c \div 4096) % 64),
           128 + ((c \div 64) % 64), 128 + (c % 64)>>

\* the bytes of the characters lo..hi of s, by halves
RECURSIVE Utf8EncodeRange(_, _, _)
Utf8EncodeRange(s, lo, hi) ==
    IF lo > hi THEN <<>>
    ELSE IF lo = hi THEN Utf8EncodeChar(s[lo])
    ELSE LET mid == (lo + hi) \div 2
         IN  Utf8EncodeRange(s, lo, mid) \o Utf8EncodeRange(s, mid + 1, hi)

\* String::as_bytes of the content handed to fs::write
Utf8Encode(s) == Utf8EncodeRange(s, 1, Len(s))

\* str::len: the length in bytes
ByteLen(s) == Len(Utf8Encode(s))

DecodeFailed == [ok |-> FALSE, s |-> <<>>]

IsContinuation(b) == b \in 128..191

\* the characters of the bytes i..hi of b, one after the other
RECURSIVE Utf8DecodeFrom(_, _, _)
Utf8DecodeFrom(b, i, hi) ==
    IF i > hi THEN [ok |-> TRUE, s |-> <<>>]
    ELSE
      LET b0 == b[i]
          n  == IF b0 < 128 THEN 1
                ELSE IF b0 \in 194..223 THEN 2
                ELSE IF b0 \in 224..239 THEN 3
                ELSE IF b0 \in 240..244 THEN 4
                ELSE 0
      IN  IF n = 0 \/ i + n - 1 > hi THEN DecodeFailed
          ELSE IF \E k \in 1..(n - 1) : ~IsContinuation(b[i + k])
          THEN DecodeFailed
          ELSE
            LET cp == IF n = 1 THEN b0
                      ELSE IF n = 2 THEN (b0 - 192) * 64 + (b[i + 1] - 128)
                      ELSE IF n = 3 THEN (b0 - 224) * 4096
                                         + (b[i + 1] - 128) * 64
                                         + (b[i + 2] - 128)
                      ELSE (b0 - 240) * 262144 + (b[i + 1] - 128) * 4096
                           + (b[i + 2] - 128) * 64 + (b[i + 3] - 128)
                wellFormed ==
                    /\ Utf8Len(cp) = n
                    /\ cp \notin 55296..57343
                    /\ cp <= 1114111
            IN  IF ~wellFormed THEN DecodeFailed
                ELSE LET rest == Utf8DecodeFrom(b, i + n, hi)
                     IN  IF rest.ok
                         THEN [ok |-> TRUE, s |-> <<cp>> \o rest.s]
                         ELSE DecodeFailed

\* the characters of the bytes lo..hi of b: a long range is cut in two at
\* the first byte from its middle on that starts a character
RECURSIVE Utf8DecodeRange(_, _, _)
Utf8DecodeRange(b, lo, hi) ==
    IF hi - lo < 8 THEN Utf8DecodeFrom(b, lo, hi)
    ELSE
      LET mid    == (lo + hi) \div 2
          starts == {i \in mid..hi : ~IsContinuation(b[i])}
      IN  IF starts = {} THEN DecodeFailed
          ELSE
            LET m     == CHOOSE i \in starts : \A j \in starts : i <= j
                left  == Utf8DecodeRange(b, lo, m - 1)
                right == Utf8DecodeRange(b, m, hi)
            IN  IF left.ok /\ right.ok
                THEN [ok |-> TRUE, s |-> left.s \o right.s]
                ELSE DecodeFailed

\* String::from_utf8 inside fs::read_to_string
Utf8Decode(b) == Utf8DecodeRange(b, 1, Len(b))

\* ------------------------------------------------------------------------
\* str helpers used by the title and the preview derivation
\* ------------------------------------------------------------------------
Take(s, n) == SubSeq(s, 1, Min(n, Len(s)))

FirstLF(s) ==
    IF \E i \in 1..Len(s) : s[i] = LF
    THEN CHOOSE i \in 1..Len(s) :
            s[i] = LF /\ \A j \in 1..(i - 1) : s[j] # LF
    ELSE 0

StripCR(l) ==
    IF l # <<>> /\ l[Len(l)] = CR THEN SubSeq(l, 1, Len(l) - 1) ELSE l

\* str::lines: split at "\n" or "\r\n", no empty last line
RECURSIVE Lines(_)
Lines(s) ==
    IF s = <<>> THEN <<>>
    ELSE LET k == FirstLF(s)
         IN  IF k = 0 THEN <<s>>
             ELSE <<StripCR(SubSeq(s, 1, k - 1))>>
                  \o Lines(SubSeq(s, k + 1, Len(s)))

\* [&str]::join("\n")
RECURSIVE JoinLF(_)
JoinLF(ls) ==
    IF ls = <<>> THEN <<>>
    ELSE IF Len(ls) = 1 THEN ls[1]
    ELSE ls[1] \o <<LF>> \o JoinLF(Tail(ls))

\* str::trim_start_matches(c)
TrimStartMatches(s, c) ==
    IF \A i \in 1..Len(s) : s[i] = c THEN <<>>
    ELSE LET k == CHOOSE i \in 1..Len(s) :
                      s[i] # c /\ \A j \in 1..(i - 1) : s[j] = c
         IN  SubSeq(s, k, Len(s))

\* str::trim
Trim(s) ==
    IF \A i \in 1..Len(s) : s[i] \in WhiteSpace THEN <<>>
    ELSE LET a == CHOOSE i \in 1..Len(s) :
                      s[i] \notin WhiteSpace
                      /\ \A j \in 1..(i - 1) : s[j] \in WhiteSpace
             b == CHOOSE i \in 1..Len(s) :
                      s[i] \notin WhiteSpace
                      /\ \A j \in (i + 1)..Len(s) : s[j] \in WhiteSpace
         IN  SubSeq(s, a, b)

\* DeriveTitle if the heading markers were not stripped
DeriveTitleKeepsMarkers(content, fallback) ==
    LET ls == Lines(content)
    IN  IF ls = <<>> THEN fallback
        ELSE LET t == Trim(ls[1])
             IN  IF t = <<>> THEN fallback ELSE t

\* the title of an entry: first line without leading '#' and surrounding
\* whitespace, or the fallback when that is empty or there is no line
DeriveTitle(content, fallback) ==
    LET ls == Lines(content)
    IN  IF ls = <<>> THEN fallback
        ELSE LET t == Trim(TrimStartMatches(ls[1], HASH))
             IN  IF t = <<>> THEN fallback ELSE t

\* content.lines().skip(1).collect::<Vec<_>>().join("\n")
ContentWithoutTitle(content) ==
    LET ls == Lines(content)
    IN  IF ls = <<>> THEN <<>> ELSE JoinLF(Tail(ls))

\* the preview of an entry in the listing
DerivePreview(content) ==
    LET body == ContentWithoutTitle(content)
    IN  Take(body, PREVIEW_LIMIT)
        \o (IF ByteLen(body) > PREVIEW_LIMIT THEN Ellipsis ELSE <<>>)

\* ------------------------------------------------------------------------
\* Time: the system clock, Utc::now() and the id format
\* ------------------------------------------------------------------------
\* clock ticks per second: file times are finer than the ids of create
TicksPerSecond == 2
\* the clock stops advancing after this many ticks
MaxClock == 2
\* the number of save, create and delete calls of a run
MaxCalls == 2
\* the number of system calls the environment makes fail in a run
MaxFaults == 1
\* Unix time of tick 0: 2024-02-29 23:59:58 UTC
StartSecs == 1709251198

Digit(d) == 48 + d

\* a number printed with leading zeros in w columns (%Y, %m, %d, %H, %M, %S)
RECURSIVE Pad(_, _)
Pad(n, w) ==
    IF w = 0 THEN <<>> ELSE Pad(n \div 10, w - 1) \o <<Digit(n % 10)>>

\* proleptic Gregorian date of a day number counted from 1970-01-01
CivilFromDays(days) ==
    LET z   == days + 719468
        era == z \div 146097
        doe == z - era * 146097
        yoe == (doe - doe \div 1460 + doe \div 36524 - doe \div 146096)
               \div 365
        doy == doe - (365 * yoe + yoe \div 4 - yoe \div 100)
        mp  == (5 * doy + 2) \div 153
        d   == doy - (153 * mp + 2) \div 5 + 1
        m   == IF mp < 10 THEN mp + 3 ELSE mp - 9
        y   == yoe + era * 400 + (IF m <= 2 THEN 1 ELSE 0)
    IN  [year |-> y, month |-> m, day |-> d]

\* now.format("%Y-%m-%d_%H-%M-%S")
FormatTimestamp(secs) ==
    LET date == CivilFromDays(secs \div 86400)
        sod  == secs % 86400
    IN  Pad(date.year, 4) \o <<45>> \o Pad(date.month, 2) \o <<45>>
        \o Pad(date.day, 2) \o <<95>> \o Pad(sod \div 3600, 2) \o <<45>>
        \o Pad((sod \div 60) % 60, 2) \o <<45>> \o Pad(sod % 60, 2)

\* ------------------------------------------------------------------------
\* Paths inside the entries directory
\* ------------------------------------------------------------------------
\* format!("{}.md", id)
FileName(id) == id \o MdSuffix

LastDot(name) ==
    IF \E i \in 1..Len(name) : name[i] = 46
    THEN CHOOSE i \in 1..Len(name) :
            name[i] = 46 /\ \A j \in (i + 1)..Len(name) : name[j] # 46
    ELSE 0

\* Path::extension: the part after the last dot, none for "x" and ".x"
Extension(name) ==
    LET k == LastDot(name)
    IN  IF k <= 1 THEN [some |-> FALSE, s |-> <<>>]
        ELSE [some |-> TRUE, s |-> SubSeq(name, k + 1, Len(name))]

\* Path::file_stem: the part before the last dot, the name for "x" and ".x"
FileStem(name) ==
    LET k == LastDot(name)
    IN  IF k <= 1 THEN name ELSE SubSeq(name, 1, k - 1)

SLASH == 47

DOT == 46

\* home_dir.join("Documents").join("Diaryx").join("entries")
EntriesDir ==
    << <<68, 111, 99, 117, 109, 101, 110, 116, 115>>,
       <<68, 105, 97, 114, 121, 120>>,
       <<101, 110, 116, 114, 105, 101, 115>> >>

\* the components of a path, the text between its separators
RECURSIVE Components(_)
Components(path) ==
    IF \E i \in 1..Len(path) : path[i] = SLASH
    THEN LET k == CHOOSE i \in 1..Len(path) :
                    path[i] = SLASH /\ \A j \in 1..(i - 1) : path[j] # SLASH
         IN  <<SubSeq(path, 1, k - 1)>>
             \o Components(SubSeq(path, k + 1, Len(path)))
    ELSE <<path>>

\* the directory a component leads to from the directory pos, which is
\* the root of the file system or lies up levels above the entries
\* directory: "" and "." stay, ".." goes to the parent, a name enters the
\* directory of that name on the way down to the entries directory; the
\* store creates no other directory, so any other name leads nowhere
StepInto(pos, comp) ==
    IF ~pos.ok \/ comp = <<>> \/ comp = <<DOT>> THEN pos
    ELSE IF comp = <<DOT, DOT>>
    THEN IF pos.root THEN pos ELSE [pos EXCEPT !.up = @ + 1]
    ELSE IF /\ ~pos.root
            /\ pos.up \in 1..Len(EntriesDir)
            /\ comp = EntriesDir[Len(EntriesDir) - pos.up + 1]
    THEN [pos EXCEPT !.up = @ - 1]
    ELSE [pos EXCEPT !.ok = FALSE]

\* the directory the components before the last lead to
RECURSIVE Walk(_, _, _)
Walk(pos, comps, i) ==
    IF i >= Len(comps) THEN pos
    ELSE Walk(StepInto(pos, comps[i]), comps, i + 1)

\* k times "../"
RECURSIVE Ups(_)
Ups(k) == IF k = 0 THEN <<>> ELSE <<DOT, DOT, SLASH>> \o Ups(k - 1)

\* entries_dir.join(name) as the file system resolves it: an absolute
\* name replaces entries_dir; ok is whether the directory of the file
\* exists once the entries directory does, key names the file by its
\* shortest path from the entries directory (the bare file name for a
\* file directly inside it)
Locate(name) ==
    LET comps == Components(name)
        abs   == name # <<>> /\ name[1] = SLASH
        dir   == Walk([ok |-> TRUE, root |-> abs, up |-> 0], comps, 1)
        file  == comps[Len(comps)]
    IN  [ok  |-> dir.ok,
         abs |-> abs,
         key |-> IF dir.root THEN <<SLASH>> \o file
                 ELSE Ups(dir.up) \o file]

\* the file of an id
EntryPath(id) == Locate(FileName(id)).key

\* a file directly inside the entries directory
DirectChild(key) == \A i \in 1..Len(key) : key[i] # SLASH

\* ------------------------------------------------------------------------
\* Inputs of the commands
\* ------------------------------------------------------------------------
\* ids the caller passes without having got them from create: "a"
CallerIds == {<<97>>}

\* contents the caller saves: "" and "# e'\n" followed by a 3-byte and a
\* 4-byte character
SaveContents ==
    {<<>>, <<HASH, 32, 233, LF, 8364, 128512>>}

\* titles the caller creates: "My", " x"
Titles == {<<77, 121>>, <<32, 120>>}

\* ------------------------------------------------------------------------
\* State
\* ------------------------------------------------------------------------
VARIABLES
    dirExists,  \* the entries directory exists
    files,      \* path from the entries directory -> [bytes, mtime]
    clock,      \* the system clock, in ticks
    last,       \* the last command: its arguments, its input and its result
    hist,       \* id -> the last call that reached the file of that id
    calls,      \* the number of save, create and delete calls so far,
                \* the deletes of concurrent tasks aside
    faults,     \* the number of failures the environment has injected
    pending     \* task -> the delete it runs, between its existence test
                \* and its fs::remove_file

vars == <<dirExists, files, clock, last, hist, calls, faults, pending>>

\* last before the first command
NoCall ==
    [op |-> "none", id |-> <<>>, arg |-> <<>>, fault |-> "none",
     dir |-> FALSE, existed |-> FALSE, now |-> 0,
     ok |-> TRUE, err |-> "", val |-> <<>>]

\* the function with no argument
EmptyMap == [n \in {} |-> <<>>]

Init ==
    /\ dirExists \in BOOLEAN
    /\ files = EmptyMap
    /\ clock = 0
    /\ last = NoCall
    /\ hist = EmptyMap
    /\ calls = 0
    /\ faults = 0
    /\ pending = EmptyMap

\* Utc::now() in whole seconds
NowSecs == StartSecs + clock \div TicksPerSecond

\* Path::exists of the file of an id
Exists(id) ==
    LET loc == Locate(FileName(id))
    IN  (dirExists \/ loc.abs) /\ loc.ok /\ loc.key \in DOMAIN files

\* the files read_dir yields: those directly inside the entries directory
DirEntries == {n \in DOMAIN files : DirectChild(n)}

\* ids a caller can know: its own and those of calls made so far
KnownIds ==
    CallerIds \cup {FileStem(n) : n \in DirEntries} \cup DOMAIN hist

\* a command as it starts: its arguments, the failure the environment
\* injects, whether the directory and the file of id exist, and, for
\* create, the second Utc::now() returns
Call(op, id, arg, fault) ==
    [op |-> op, id |-> id, arg |-> arg, fault |-> fault,
     dir |-> dirExists,
     existed |-> op # "list" /\ Exists(id),
     now |-> IF op = "create" THEN NowSecs ELSE 0,
     ok |-> TRUE, err |-> "", val |-> <<>>]

Ok(call, val) == [call EXCEPT !.ok = TRUE, !.val = val]

Err(call, msg) == [call EXCEPT !.ok = FALSE, !.err = msg]

\* the environment makes one more system call fail, while it may
Inject(fault) ==
    IF fault = "none" THEN UNCHANGED faults
    ELSE faults < MaxFaults /\ faults' = faults + 1

\* hist after a save, create or delete has reached the file of id:
\* the argument of the call (content or title), the content it wrote if
\* it succeeded, what the file held before it ("absent", "same" as that
\* content, "other") and the call that reached the file before it
Reached(call, content, ok) ==
    [n \in DOMAIN hist \cup {call.id} |->
        IF n = call.id
        THEN [op |-> call.op, ok |-> ok, arg |-> call.arg,
              content |-> IF ok THEN content ELSE <<>>,
              prior |-> IF ~call.existed THEN "absent"
                        ELSE IF files[EntryPath(call.id)].bytes
                                = Utf8Encode(content)
                        THEN "same" ELSE "other",
              before |-> IF call.id \in DOMAIN hist
                         THEN hist[call.id].op ELSE "none"]
        ELSE hist[n]]

\* WriteFile if the content were appended to what the file holds
WriteFileAppend(name, content) ==
    [n \in DOMAIN files \cup {name} |->
        IF n = name
        THEN [bytes |-> (IF name \in DOMAIN files
                         THEN files[name].bytes ELSE <<>>)
                        \o Utf8Encode(content),
              mtime |-> clock]
        ELSE files[n]]

\* WriteFile if the file got its time from a clock that runs backwards
WriteFileBackdated(name, content) ==
    [n \in DOMAIN files \cup {name} |->
        IF n = name
        THEN [bytes |-> Utf8Encode(content), mtime |-> MaxClock - clock]
        ELSE files[n]]

\* the directory after fs::write(path, content) has run to the end
WriteFile(name, content) ==
    [n \in DOMAIN files \cup {name} |->
        IF n = name
        THEN [bytes |-> Utf8Encode(content), mtime |-> clock]
        ELSE files[n]]

\* RemoveFile if the file stayed in the directory
RemoveFileNot(name) == files

\* the directory after fs::remove_file(path)
RemoveFile(name) == [n \in DOMAIN files \ {name} |-> files[n]]

\* ------------------------------------------------------------------------
\* The system clock advances
\* ------------------------------------------------------------------------
Tick ==
    /\ clock < MaxClock
    /\ clock' = clock + 1
    /\ UNCHANGED <<dirExists, files, last, hist, calls, faults, pending>>

\* ------------------------------------------------------------------------
\* save_journal_entry(id, content)
\*   fault: "home" (home_dir() is None), "mkdir" (create_dir_all fails),
\*          "open" (fs::write fails before touching the file),
\*          "write" (fs::write fails after truncating the file)
\*   fs::write also fails before touching a file whose directory is missing
\* ------------------------------------------------------------------------
WriteFaults == {"none", "home", "mkdir", "open", "write"}

\* EnsuredDir if the directory were not created
EnsuredDirNot == FALSE

\* the directory exists once create_dir_all has returned Ok
EnsuredDir == TRUE

\* WriteEntry if a failure of create_dir_all were ignored
WriteEntryDespiteMkdir(call, id, content, result) ==
    LET fault == call.fault
    IN
    IF fault = "home"
    THEN /\ last' = Err(call, "Failed to get home directory")
         /\ UNCHANGED <<dirExists, files, hist>>
    ELSE /\ dirExists' = (dirExists \/ EnsuredDir)
         /\ IF fault = "open" \/ ~Locate(FileName(id)).ok
            THEN /\ last' = Err(call, "Failed to write file")
                 /\ hist' = Reached(call, content, FALSE)
                 /\ UNCHANGED files
            ELSE IF fault = "write"
            THEN /\ last' = Err(call, "Failed to write file")
                 /\ hist' = Reached(call, content, FALSE)
                 /\ files' = WriteFile(EntryPath(id), <<>>)
            ELSE /\ last' = Ok(call, result)
                 /\ hist' = Reached(call, content, TRUE)
                 /\ files' = WriteFile(EntryPath(id), content)

\* the common tail of save and create: write content to the file of id
WriteEntry(call, id, content, result) ==
    LET fault == call.fault
    IN
    IF fault = "home"
    THEN /\ last' = Err(call, "Failed to get home directory")
         /\ UNCHANGED <<dirExists, files, hist>>
    ELSE IF ~dirExists /\ fault = "mkdir"
    THEN /\ last' = Err(call, "Failed to create directory")
         /\ UNCHANGED <<dirExists, files, hist>>
    ELSE /\ dirExists' = (dirExists \/ EnsuredDir)
         /\ IF fault = "open" \/ ~Locate(FileName(id)).ok
            THEN /\ last' = Err(call, "Failed to write file")
                 /\ hist' = Reached(call, content, FALSE)
                 /\ UNCHANGED files
            ELSE IF fault = "write"
            THEN /\ last' = Err(call, "Failed to write file")
                 /\ hist' = Reached(call, content, FALSE)
                 /\ files' = WriteFile(EntryPath(id), <<>>)
            ELSE /\ last' = Ok(call, result)
                 /\ hist' = Reached(call, content, TRUE)
                 /\ files' = WriteFile(EntryPath(id), content)

Save(id, content, fault) ==
    /\ calls < MaxCalls
    /\ calls' = calls + 1
    /\ Inject(fault)
    /\ fault = "mkdir" => ~dirExists
    /\ WriteEntry(Call("save", id, content, fault),
                  id, content, <<>>)
    /\ UNCHANGED <<clock, pending>>

\* ------------------------------------------------------------------------
\* create_journal_entry(title)
\* ------------------------------------------------------------------------
\* format!("# {}\n\n", title)
InitialContent(title) == HeadingStart \o title \o <<LF, LF>>

\* NewId if the id had the resolution of the clock
NewIdWithTicks ==
    FormatTimestamp(NowSecs) \o <<45>> \o Pad(clock % TicksPerSecond, 1)

\* the id create gives the entry
NewId == FormatTimestamp(NowSecs)

Create(title, fault) ==
    /\ calls < MaxCalls
    /\ calls' = calls + 1
    /\ Inject(fault)
    /\ fault = "mkdir" => ~dirExists
    /\ WriteEntry(Call("create", NewId, title, fault),
                  NewId, InitialContent(title), NewId)
    /\ UNCHANGED <<clock, pending>>

\* ------------------------------------------------------------------------
\* delete_journal_entry(id)
\*   fault: "home", "remove" (fs::remove_file fails)
\* ------------------------------------------------------------------------
DeleteFaults == {"none", "home", "remove"}

\* Delete if remove_file ran without the check that the file exists
DeleteUnchecked(id, fault) ==
    LET call == Call("delete", id, <<>>, fault)
    IN
    /\ calls < MaxCalls
    /\ calls' = calls + 1
    /\ Inject(fault)
    /\ fault = "remove" => Exists(id)
    /\ IF fault = "home"
       THEN /\ last' = Err(call, "Failed to get home directory")
            /\ UNCHANGED <<files, hist>>
       ELSE IF Exists(id) /\ fault # "remove"
       THEN /\ last' = Ok(call, <<>>)
            /\ hist' = Reached(call, <<>>, TRUE)
            /\ files' = RemoveFile(EntryPath(id))
       ELSE /\ last' = Err(call, "Failed to delete file")
            /\ hist' = Reached(call, <<>>, FALSE)
            /\ UNCHANGED files
    /\ UNCHANGED <<dirExists, clock, pending>>

Delete(id, fault) ==
    LET call == Call("delete", id, <<>>, fault)
    IN
    /\ calls < MaxCalls
    /\ calls' = calls + 1
    /\ Inject(fault)
    /\ fault = "remove" => Exists(id)
    /\ IF fault = "home"
       THEN /\ last' = Err(call, "Failed to get home directory")
            /\ UNCHANGED <<files, hist>>
       ELSE IF Exists(id)
       THEN IF fault = "remove"
            THEN /\ last' = Err(call, "Failed to delete file")
                 /\ hist' = Reached(call, <<>>, FALSE)
                 /\ UNCHANGED files
            ELSE /\ last' = Ok(call, <<>>)
                 /\ hist' = Reached(call, <<>>, TRUE)
                 /\ files' = RemoveFile(EntryPath(id))
       ELSE /\ last' = Ok(call, <<>>)
            /\ hist' = Reached(call, <<>>, TRUE)
            /\ UNCHANGED files
    /\ UNCHANGED <<dirExists, clock, pending>>

\* ------------------------------------------------------------------------
\* get_journal_entry(id)
\*   fault: "home", "read" (fs::read_to_string fails), "metadata"
\*          (fs::metadata or Metadata::modified fails)
\* ------------------------------------------------------------------------
GetFaults == {"none", "home", "read", "metadata"}

\* ToUtc if the conversion dropped the fraction of the second
ToUtcWholeSeconds(mtime) == mtime - (mtime % TicksPerSecond)

\* SystemTime -> DateTime<Utc>: the same instant
ToUtc(mtime) == mtime

GetResult(id, fault) ==
    LET call == Call("get", id, <<>>, fault)
    IN
    IF fault = "home" THEN Err(call, "Failed to get home directory")
    ELSE IF ~Exists(id) THEN Err(call, "Entry not found")
    ELSE
      LET file == files[EntryPath(id)]
          text == Utf8Decode(file.bytes)
      IN  IF fault = "read" \/ ~text.ok
          THEN Err(call, "Failed to read file")
          ELSE IF fault = "metadata"
          THEN Err(call, "Failed to read metadata")
          ELSE Ok(call,
                  [id          |-> id,
                   title       |-> DeriveTitle(text.s, id),
                   content     |-> text.s,
                   created_at  |-> ToUtc(file.mtime),
                   modified_at |-> ToUtc(file.mtime),
                   file_path   |-> FileName(id)])

\* Get if it opened the file so as to create it when it is missing
GetCreating(id, fault) ==
    /\ Inject(fault)
    /\ fault \in {"read", "metadata"} => Exists(id)
    /\ last' = GetResult(id, fault)
    /\ files' = IF dirExists /\ ~Exists(id) /\ Locate(FileName(id)).ok
                THEN WriteFile(EntryPath(id), <<>>)
                ELSE files
    /\ UNCHANGED <<dirExists, clock, hist, calls, pending>>

Get(id, fault) ==
    /\ Inject(fault)
    /\ fault \in {"read", "metadata"} => Exists(id)
    /\ last' = GetResult(id, fault)
    /\ UNCHANGED <<dirExists, files, clock, hist, calls, pending>>

\* ------------------------------------------------------------------------
\* get_journal_entries()
\*   fault: "home", "mkdir", "readdir" (fs::read_dir fails)
\*   order: the order in which read_dir yields the files
\*   pf:    per file, "entry" (the directory entry is an Err), "read"
\*          (fs::read_to_string fails), "metadata" (fs::metadata or
\*          Metadata::modified fails); no file fails in a listing that
\*          does not get to the files
\* ------------------------------------------------------------------------
ListFaults == {"none", "home", "mkdir", "readdir"}

FileFaults == {"none", "entry", "read", "metadata"}

\* the files a listing fails on
Faulty(pf) == {n \in DOMAIN pf : pf[n] # "none"}

\* the per-file inputs of a listing that fails on at most k files of S
FaultMaps(S, k) ==
    {pf \in [S -> FileFaults] : Cardinality(Faulty(pf)) <= k}

\* the number of system calls that fail in a listing
Injected(pf, fault) ==
    Cardinality(Faulty(pf)) + (IF fault = "none" THEN 0 ELSE 1)

\* the orders read_dir can yield the files of a set in
Orders(S) ==
    {o \in [1..Cardinality(S) -> S] :
        \A i, j \in 1..Cardinality(S) : o[i] = o[j] => i = j}

\* Metadata if the title fell back to "Untitled" instead of the file stem
MetadataUntitled(name, text, mtime) ==
    [id          |-> FileStem(name),
     title       |-> DeriveTitle(text, <<85, 110, 116, 105, 116, 108, 101, 100>>),
     created_at  |-> ToUtc(mtime),
     modified_at |-> ToUtc(mtime),
     file_path   |-> name,
     preview     |-> DerivePreview(text)]

\* the EntryMetadata pushed for a file whose content was read
Metadata(name, text, mtime) ==
    [id          |-> FileStem(name),
     title       |-> DeriveTitle(text, FileStem(name)),
     created_at  |-> ToUtc(mtime),
     modified_at |-> ToUtc(mtime),
     file_path   |-> name,
     preview     |-> DerivePreview(text)]

\* the body of the for loop, from the i-th directory entry on
RECURSIVE ScanDir(_, _, _)
ScanDir(order, pf, i) ==
    IF i > Len(order) THEN [ok |-> TRUE, err |-> "", entries |-> <<>>]
    ELSE
      LET name == order[i]
          ext  == Extension(name)
          text == Utf8Decode(files[name].bytes)
          rest == ScanDir(order, pf, i + 1)
      IN  IF pf[name] = "entry" \/ ~ext.some \/ ext.s # MdExt
          THEN rest
          ELSE IF pf[name] = "read" \/ ~text.ok
          THEN rest
          ELSE IF pf[name] = "metadata"
          THEN [ok |-> FALSE, err |-> "Failed to read metadata",
                entries |-> <<>>]
          ELSE IF rest.ok
          THEN [rest EXCEPT !.entries =
                   <<Metadata(name, text.s, files[name].mtime)>> \o @]
          ELSE rest

\* a sorted sequence with e put behind the elements that are not older
InsertByModified(sorted, e) ==
    LET k == Cardinality({i \in 1..Len(sorted) :
                            sorted[i].modified_at >= e.modified_at})
    IN  SubSeq(sorted, 1, k) \o <<e>> \o SubSeq(sorted, k + 1, Len(sorted))

\* SortByModified if the entries stayed in the order of read_dir
NotSorted(entries) == entries

\* entries.sort_by(|a, b| b.modified_at.cmp(&a.modified_at)), a stable sort
RECURSIVE SortByModified(_)
SortByModified(entries) ==
    IF entries = <<>> THEN <<>>
    ELSE InsertByModified(
            SortByModified(SubSeq(entries, 1, Len(entries) - 1)),
            entries[Len(entries)])

\* Listing if an Err of read_dir were returned to the caller
ListingPropagates(call, order) ==
    IF call.fault = "readdir" THEN Err(call, "Failed to read directory")
    ELSE LET scan == ScanDir(order, call.arg, 1)
         IN  IF scan.ok THEN Ok(call, SortByModified(scan.entries))
             ELSE Err(call, scan.err)

\* the listing once the directory exists: read_dir, the loop, the sort
Listing(call, order) ==
    IF call.fault = "readdir" THEN Ok(call, <<>>)
    ELSE LET scan == ScanDir(order, call.arg, 1)
         IN  IF scan.ok THEN Ok(call, SortByModified(scan.entries))
             ELSE Err(call, scan.err)

List(order, pf, fault) ==
    LET call == Call("list", <<>>, pf, fault)
    IN
    /\ faults + Injected(pf, fault) <= MaxFaults
    /\ faults' = faults + Injected(pf, fault)
    /\ fault = "mkdir" => ~dirExists
    /\ fault # "none" => Faulty(pf) = {}
    /\ IF fault = "home"
       THEN /\ last' = Err(call, "Failed to get home directory")
            /\ UNCHANGED dirExists
       ELSE IF ~dirExists /\ fault = "mkdir"
       THEN /\ last' = Err(call, "Failed to create directory")
            /\ UNCHANGED dirExists
       ELSE /\ dirExists' = (dirExists \/ EnsuredDir)
            /\ last' = Listing(call, order)
    /\ UNCHANGED <<files, clock, hist, calls, pending>>

\* ------------------------------------------------------------------------
\* The store under any sequence of commands
\* ------------------------------------------------------------------------
Next ==
    \/ Tick
    \/ \E id \in KnownIds, content \in SaveContents, fault \in WriteFaults :
          Save(id, content, fault)
    \/ \E title \in Titles, fault \in WriteFaults : Create(title, fault)
    \/ \E id \in KnownIds, fault \in DeleteFaults : Delete(id, fault)
    \/ \E id \in KnownIds, fault \in GetFaults : Get(id, fault)
    \/ LET orders == Orders(DirEntries)
           maps   == FaultMaps(DirEntries, MaxFaults - faults)
       IN  \E pf \in maps, fault \in ListFaults, order \in orders :
              List(order, pf, fault)

Spec == Init /\ [][Next]_vars

\* ------------------------------------------------------------------------
\* create and get over the titles a caller may pass
\* ------------------------------------------------------------------------
\* "My", " x", "x ", "", "#x", "##", "a\nb", "a\rb" and a 2-byte character
AllTitles ==
    {<<77, 121>>, <<32, 120>>, <<120, 32>>, <<>>, <<HASH, 120>>,
     <<HASH, HASH>>, <<97, LF, 98>>, <<97, CR, 98>>, <<233>>}

NextTitles ==
    \/ Tick
    \/ \E title \in AllTitles : Create(title, "none")
    \/ \E id \in KnownIds : Get(id, "none")

SpecTitles == Init /\ [][NextTitles]_vars

\* ------------------------------------------------------------------------
\* save and list over bodies around the preview limit
\* ------------------------------------------------------------------------
\* "a", a 2-byte, a 3-byte and a 4-byte character
BodyChars == {97, 233, 8364, 128512}

\* body lengths in characters
BodyLengths == {0, 75, 76, 100, 149, 150, 151, 200}

\* "# T\n" followed by n times the character c
PreviewContent(c, n) == <<HASH, 32, 84, LF>> \o [i \in 1..n |-> c]

PreviewContents == {PreviewContent(c, n) : c \in BodyChars, n \in BodyLengths}

NextPreview ==
    \/ \E content \in PreviewContents : Save(<<97>>, content, "none")
    \/ \E order \in Orders(DirEntries) :
          List(order, [n \in DirEntries |-> "none"], "none")

SpecPreview == Init /\ [][NextPreview]_vars

\* ------------------------------------------------------------------------
\* delete_journal_entry run by concurrent tasks: the commands are async
\* functions with no lock, so the steps of other tasks can fall between
\* the test entry_path.exists() of a delete and its fs::remove_file
\* ------------------------------------------------------------------------
Tasks == {1, 2}

\* a delete up to its test of entry_path.exists(): it returns Ok(()) at
\* once if the file does not exist, and goes on to remove it otherwise
DeleteCheck(task, id) ==
    LET call == Call("delete", id, <<>>, "none")
    IN
    /\ task \notin DOMAIN pending
    /\ IF Exists(id)
       THEN /\ pending' = [t \in DOMAIN pending \cup {task} |->
                              IF t = task THEN call ELSE pending[t]]
            /\ UNCHANGED <<last, hist>>
       ELSE /\ last' = Ok(call, <<>>)
            /\ hist' = Reached(call, <<>>, TRUE)
            /\ UNCHANGED pending
    /\ UNCHANGED <<dirExists, files, clock, calls, faults>>

\* the fs::remove_file of a delete that found the file: it fails if the
\* file is no longer there
DeleteRemove(task) ==
    /\ task \in DOMAIN pending
    /\ LET call == pending[task]
       IN  IF Exists(call.id)
           THEN /\ last' = Ok(call, <<>>)
                /\ hist' = Reached(call, <<>>, TRUE)
                /\ files' = RemoveFile(EntryPath(call.id))
           ELSE /\ last' = Err(call, "Failed to delete file")
                /\ hist' = Reached([call EXCEPT !.existed = FALSE],
                                   <<>>, FALSE)
                /\ UNCHANGED files
    /\ pending' = [t \in DOMAIN pending \ {task} |-> pending[t]]
    /\ UNCHANGED <<dirExists, clock, calls, faults>>

NextRace ==
    \/ Tick
    \/ \E id \in CallerIds, content \in SaveContents :
          Save(id, content, "none")
    \/ \E id \in CallerIds : Get(id, "none")
    \/ \E task \in Tasks, id \in CallerIds : DeleteCheck(task, id)
    \/ \E task \in Tasks : DeleteRemove(task)

SpecRace == Init /\ [][NextRace]_vars

\* ------------------------------------------------------------------------
\* the commands over ids that are not plain file stems
\* ------------------------------------------------------------------------
\* "a", "", "./a", "../x", "s/x", "/x"
PathIds ==
    {<<97>>, <<>>, <<DOT, SLASH, 97>>, <<DOT, DOT, SLASH, 120>>,
     <<115, SLASH, 120>>, <<SLASH, 120>>}

NextPaths ==
    \/ Tick
    \/ \E id \in PathIds, content \in SaveContents :
          Save(id, content, "none")
    \/ \E title \in Titles : Create(title, "none")
    \/ \E id \in PathIds : Delete(id, "none")
    \/ \E id \in PathIds : Get(id, "none")
    \/ \E order \in Orders(DirEntries) :
          List(order, [n \in DirEntries |-> "none"], "none")

SpecPaths == Init /\ [][NextPaths]_vars

\* ------------------------------------------------------------------------
\* Properties
\* ------------------------------------------------------------------------
StartsWith(s, p) == Len(s) >= Len(p) /\ SubSeq(s, 1, Len(p)) = p

\* the ids of a listing
ListedIds(entries) == {entries[i].id : i \in 1..Len(entries)}

\* the last command was a get of an id whose file was last reached by a
\* successful call of the given kind
GotAfter(op) ==
    /\ last.op = "get"
    /\ last.id \in DOMAIN hist
    /\ hist[last.id].op = op
    /\ hist[last.id].ok

\* C1: a get that follows a successful save(id, content), with no save,
\* create or delete of that id in between and no failure injected into the
\* get, returns an Entry whose content is exactly the saved content,
\* whether the file was absent or held other content before the save.
C1_SaveThenGet ==
    (GotAfter("save") /\ last.fault = "none")
        => (last.ok /\ last.val.content = hist[last.id].content)

\* a get returned the content of a save that replaced other content
C1_Witness ==
    /\ GotAfter("save")
    /\ last.ok
    /\ hist[last.id].prior = "other"
    /\ last.val.content = hist[last.id].content

\* C2: a get whose home location resolves fails with "Entry not found"
\* exactly when no file of the id exists; it does so for every id that no
\* save or create has reached and for every id after a successful delete,
\* and never returns an Entry then.
C2_GetNotFound ==
    (last.op = "get" /\ last.fault # "home") =>
        /\ (last.err = "Entry not found")
              <=> (FileName(last.id) \notin DOMAIN files)
        /\ (FileName(last.id) \notin DOMAIN files) => ~last.ok
        /\ (last.id \notin DOMAIN hist \/ GotAfter("delete"))
              => (~last.ok /\ last.err = "Entry not found")

\* a get failed with "Entry not found" after a delete removed the file
C2_Witness ==
    /\ GotAfter("delete")
    /\ hist[last.id].prior # "absent"
    /\ ~last.ok
    /\ last.err = "Entry not found"

\* C3: a delete whose home location resolves and that finds no file of the
\* id returns success and leaves the directory and its files as they were;
\* so does a delete that follows a successful delete of the same id.
C3_DeleteIdempotent ==
    [][(calls' = calls + 1 /\ last'.op = "delete" /\ last'.fault # "home"
        /\ (~last'.existed
            \/ (last.op = "delete" /\ last.ok /\ last.id = last'.id)))
       => (last'.ok /\ files' = files /\ dirExists' = dirExists)]_vars

\* a delete succeeded on an absent file that a delete had reached before
C3_Witness ==
    /\ last.op = "delete"
    /\ last.ok
    /\ ~last.existed
    /\ hist[last.id].before = "delete"

\* C4: a listing whose directory is read succeeds whatever happens to single
\* files, and returns the entry of every file that was read without failure.
C4_ListToleratesFileFailures ==
    (last.op = "list" /\ last.fault = "none") =>
        /\ last.ok
        /\ ListedIds(last.val)
              = {FileStem(n) : n \in {m \in DOMAIN files : last.arg[m] = "none"}}

\* C5: the preview of a listed entry is the first min(150, characters of
\* body) characters of body, followed by "..." exactly when body has more
\* than 150 characters, body being the content without its first line.
C5_PreviewByCharacters ==
    (last.op = "list" /\ last.ok) =>
        \A i \in 1..Len(last.val) :
            LET body == ContentWithoutTitle(
                            Utf8Decode(files[last.val[i].file_path].bytes).s)
            IN  last.val[i].preview =
                    SubSeq(body, 1, Min(150, Len(body)))
                    \o (IF Len(body) > 150 THEN <<46, 46, 46>> ELSE <<>>)

\* C6: the entries a listing returns are sorted by modified_at descending.
C6_ListSorted ==
    (last.op = "list" /\ last.ok) =>
        \A i \in 1..(Len(last.val) - 1) :
            last.val[i].modified_at >= last.val[i + 1].modified_at

\* a listing returned two entries of different modification times
C6_Witness ==
    /\ last.op = "list"
    /\ last.ok
    /\ Len(last.val) >= 2
    /\ last.val[1].modified_at > last.val[2].modified_at

\* "# " and the title: the heading line create writes for a title
HeadingLine(title) == <<35, 32>> \o title

\* the first line of a content without heading markers and outer whitespace
StrippedFirstLine(content) ==
    IF Lines(content) = <<>> THEN <<>>
    ELSE Trim(TrimStartMatches(Lines(content)[1], HASH))

\* a title create gives back unchanged: it is not empty, neither starts
\* nor ends with whitespace and has no line feed
PlainTitle(title) ==
    /\ title # <<>>
    /\ title[1] \notin WhiteSpace
    /\ title[Len(title)] \notin WhiteSpace
    /\ \A i \in 1..Len(title) : title[i] # LF

Commands == {"list", "get", "save", "create", "delete"}

\* C8, as stated: after any command that returns without a failure to
\* resolve or create the directory, the entries directory exists.
C8_EveryCommandEnsuresDirectory ==
    (last.op \in Commands /\ last.fault \notin {"home", "mkdir"})
        => dirExists

\* C8, amended: after a list, save or create that returns without a
\* failure to resolve or create the directory, the entries directory
\* exists; get and delete leave the directory as they found it, get failing
\* with "Entry not found" and delete succeeding when it is missing.
C8_EnsureDirectory ==
    /\ (last.op \in {"list", "save", "create"}
        /\ last.fault \notin {"home", "mkdir"}) => dirExists
    /\ last.op \in {"get", "delete"} => dirExists = last.dir
    /\ (last.op \in {"get", "delete"} /\ ~last.dir /\ last.fault # "home")
          => IF last.op = "get"
             THEN ~last.ok /\ last.err = "Entry not found"
             ELSE last.ok

\* a list, save or create found no directory and created it
C8_Witness ==
    /\ last.op \in {"list", "save", "create"}
    /\ ~last.dir
    /\ dirExists

\* C9: a listing of a directory that holds no file, or that the listing
\* itself created, returns success with an empty sequence.
C9_ListEmptyDirectory ==
    (last.op = "list" /\ last.fault \notin {"home", "mkdir"}
     /\ (DOMAIN files = {} \/ ~last.dir))
        => (last.ok /\ last.val = <<>>)

\* a listing created the directory and returned the empty sequence
C9_Witness ==
    /\ last.op = "list"
    /\ ~last.dir
    /\ dirExists
    /\ last.ok
    /\ last.val = <<>>

\* C10: a create that follows a successful create within the same second,
\* no failure injected, succeeds and returns the same id; afterwards
\* exactly one file has that id, no file was added, and the file holds the
\* heading of the later title.
C10_CreateCollision ==
    [][(calls' = calls + 1
        /\ last.op = "create" /\ last.ok
        /\ last'.op = "create" /\ last'.fault = "none"
        /\ last'.now = last.now)
       => /\ last'.ok
          /\ last'.val = last.val
          /\ Cardinality({n \in DOMAIN files' : FileStem(n) = last'.val}) = 1
          /\ DOMAIN files' = DOMAIN files
          /\ Utf8Decode(files'[FileName(last'.val)].bytes).s
                = HeadingLine(last'.arg) \o <<LF, LF>>]_vars

\* a create replaced the entry of an earlier create of another title
C10_Witness ==
    /\ last.op = "create"
    /\ last.ok
    /\ hist[last.val].before = "create"
    /\ hist[last.val].prior = "other"
    /\ Cardinality(DOMAIN files) = 1

\* the ids the commands of Spec are called with
SpecIds ==
    CallerIds
    \cup {FormatTimestamp(StartSecs + s) : s \in 0..(MaxClock \div TicksPerSecond)}

\* the modified_at a get returns for a file
ModifiedAt(file) == ToUtc(file.mtime)

\* C11: when a save of an id succeeds on a file that a get could read
\* before it, the modified_at a get returns after the save is not smaller
\* than the modified_at a get returned before the save, the clock never
\* going backwards.
C11_ModifiedAtMonotone ==
    [][\A id \in SpecIds :
          (/\ calls' = calls + 1
           /\ last'.op = "save" /\ last'.ok /\ last'.id = id
           /\ GetResult(id, "none").ok)
          => /\ EntryPath(id) \in DOMAIN files'
             /\ ModifiedAt(files'[EntryPath(id)])
                   >= GetResult(id, "none").val.modified_at]_vars

\* a save replaced the content of a file after the clock had advanced
C11_Witness ==
    /\ last.op = "save"
    /\ last.ok
    /\ last.existed
    /\ hist[last.id].prior = "other"
    /\ GetResult(last.id, "none").val.modified_at > 0

\* the first line of a content without heading markers and surrounding
\* whitespace, or the id when that is empty or there is no first line
TitleOf(content, id) ==
    IF StrippedFirstLine(content) = <<>> THEN id
    ELSE StrippedFirstLine(content)

\* C12: the title of an Entry a get returns is the stripped first line of
\* its content, or the id when that is empty; every element a listing
\* returns has the title that a get of its id returns in the same state,
\* which is the stripped first line of the content or the id.
C12_TitlesAgree ==
    /\ (last.op = "get" /\ last.ok)
          => last.val.title = TitleOf(last.val.content, last.id)
    /\ (last.op = "list" /\ last.ok) =>
          \A i \in 1..Len(last.val) :
              LET e   == last.val[i]
                  got == GetResult(e.id, "none")
              IN  /\ got.ok
                  /\ got.val.title = e.title
                  /\ e.title = TitleOf(got.val.content, e.id)

\* a listing returned an entry whose title is its id and an entry whose
\* title comes from its first line
C12_Witness ==
    /\ last.op = "list"
    /\ last.ok
    /\ \E i, j \in 1..Len(last.val) :
          /\ last.val[i].title = last.val[i].id
          /\ last.val[j].title # last.val[j].id
          /\ GetResult(last.val[i].id, "none").val.title = last.val[i].id

\* C13: in the Entry of every successful get and in every element of every
\* successful listing, created_at equals modified_at, and both are the
\* modification time the file has when it is read.
C13_CreatedIsModified ==
    /\ (last.op = "get" /\ last.ok) =>
          /\ last.val.created_at = last.val.modified_at
          /\ last.val.modified_at = files[EntryPath(last.id)].mtime
    /\ (last.op = "list" /\ last.ok) =>
          \A i \in 1..Len(last.val) :
              /\ last.val[i].created_at = last.val[i].modified_at
              /\ last.val[i].modified_at = files[last.val[i].file_path].mtime

\* a get returned an entry that a save had replaced some time after its
\* creation: both times are the time of the save
C13_Witness ==
    /\ GotAfter("save")
    /\ last.ok
    /\ hist[last.id].before = "create"
    /\ last.val.created_at = last.val.modified_at
    /\ last.val.modified_at = clock
    /\ clock > 0

\* the ids a caller may pass that hold no path separator
SeparatorFreeIds == {id \in PathIds \cup KnownIds : DirectChild(id)}

\* C14: a listing with every file readable returns one element per file of
\* the entries directory, with pairwise distinct ids, and an id a caller
\* may pass is among the listed ids exactly when a get of it succeeds in
\* the same state; stated here for the ids without a path separator only.
C14_ListAndGetAgree ==
    (last.op = "list" /\ last.fault = "none" /\ Faulty(last.arg) = {}) =>
        /\ last.ok
        /\ Len(last.val) = Cardinality(DirEntries)
        /\ \A i, j \in 1..Len(last.val) :
              last.val[i].id = last.val[j].id => i = j
        /\ \A id \in SeparatorFreeIds :
              (id \in ListedIds(last.val)) <=> GetResult(id, "none").ok

\* C15: a save, create or delete changes at most the file of its id; for
\* every other id a caller may pass, the file of that id exists after the
\* call exactly if it existed before, with the same content and the same
\* modification time, whether the call succeeded or failed.
C15_FrameOfMutations ==
    [][calls' = calls + 1 =>
        \A id \in (PathIds \cup SpecIds) \ {last'.id} :
            LET loc == Locate(FileName(id))
            IN  loc.ok =>
                  /\ (loc.key \in DOMAIN files') = (loc.key \in DOMAIN files)
                  /\ loc.key \in DOMAIN files
                        => files'[loc.key] = files[loc.key]]_vars

\* C16: every file the store holds is directly inside the entries
\* directory, and so is the file a save wrote, a get read or a delete
\* looked for, whatever id the caller passed.
C16_Containment ==
    /\ \A n \in DOMAIN files : DirectChild(n)
    /\ (last.op \in {"save", "get", "delete"} /\ last.ok)
          => DirectChild(EntryPath(last.id))

\* C17: a delete into which no failure of the home lookup or of the file
\* system is injected returns success, also when the steps of other
\* commands on the same id fall between its existence test and its
\* removal.
C17_DeleteNeverFailsOnAbsence ==
    (last.op = "delete" /\ last.fault = "none") => last.ok

\* C18: a get or a list, whether it succeeds or fails, leaves every file
\* as it was: no file is added, removed or changed in content or
\* modification time; a get leaves the directory as it was, a list at most
\* creates it when it is missing; and a file is added or changes content
\* only in a step of save or create.
C18_ReadsDoNotMutate ==
    [][/\ (last'.op \in {"get", "list"} /\ calls' = calls /\ clock' = clock)
            => /\ files' = files
               /\ dirExists' # dirExists => (last'.op = "list" /\ ~dirExists)
       /\ \A n \in DOMAIN files' :
             (n \notin DOMAIN files \/ files'[n].bytes # files[n].bytes)
                => (calls' = calls + 1 /\ last'.op \in {"save", "create"})
      ]_vars

\* a listing returned an entry whose file still holds the content, not
\* empty, that the last save or create of its id wrote
C18_Witness ==
    /\ last.op = "list"
    /\ last.ok
    /\ \E i \in 1..Len(last.val) :
          /\ last.val[i].id \in DOMAIN hist
          /\ hist[last.val[i].id].ok
          /\ hist[last.val[i].id].content # <<>>
          /\ files[last.val[i].file_path].bytes
                = Utf8Encode(hist[last.val[i].id].content)

\* C19: a list, save or create whose home lookup fails, or that finds the
\* entries directory missing and fails to create it, returns the failure
\* of that step and leaves the directory missing or present as it was and
\* every file as it was.
C19_DirectoryUnavailable ==
    [][(/\ last'.op \in {"list", "save", "create"}
        /\ last'.fault \in {"home", "mkdir"}
        /\ faults' = faults + 1)
       => /\ ~last'.ok
          /\ last'.err = (IF last'.fault = "home"
                          THEN "Failed to get home directory"
                          ELSE "Failed to create directory")
          /\ files' = files
          /\ dirExists' = dirExists]_vars

\* a save whose home lookup failed left the file of its id, which held
\* other content, as it was
C19_Witness ==
    /\ last.op = "save"
    /\ last.fault = "home"
    /\ ~last.ok
    /\ last.existed
    /\ files[EntryPath(last.id)].bytes # Utf8Encode(last.arg)

====
